---- MODULE Spec2Model ----
(***************************************************************************)
(* Model of safehttp.Form (src/safehttp/form.go): the typed getters over   *)
(* the parsed values map and the last-error slot.                          *)
(*                                                                         *)
(* Strings are sequences of one-character strings, so that the strconv     *)
(* conversions are computed character by character as the library does.    *)
(* A float64 result is kept as the decimal it denotes (sign, significant   *)
(* digits, power of ten); the tokens of the model are all exactly          *)
(* representable, so this loses nothing.                                   *)
(***************************************************************************)
EXTENDS Integers, Sequences, FiniteSets, TLC

VARIABLES values, err, call

vars == <<values, err, call>>

----------------------------------------------------------------------------
(* Bounds and input sets *)

\* Longest list of values a parameter is submitted with.
MaxVals == 2

\* Parameter names that may be submitted, and the keys a handler asks for
\* ("q" is never submitted).
FormKeys == {"k"}
Keys == {"k", "q"}

S_true == <<"t", "r", "u", "e">>
S_false == <<"f", "a", "l", "s", "e">>
S_maybe == <<"m", "a", "y", "b", "e">>
S_empty == << >>
S_1 == <<"1">>
S_neg7 == <<"-", "7">>
S_1p5 == <<"1", ".", "5">>
\* 2^64: one more than the largest uint64.
S_2pow64 == <<"1","8","4","4","6","7","4","4","0","7","3","7","0","9","5","5","1","6","1","6">>

\* Strings that occur as values of the map.
Tokens == {S_true, S_false, S_maybe, S_empty, S_1, S_neg7, S_1p5, S_2pow64}

----------------------------------------------------------------------------
(* Errors *)

\* The nil error.
NoError == [kind |-> "nil", fn |-> "", num |-> << >>, detail |-> ""]

\* *strconv.NumError{Func, Num, Err}
NumError(fn, s, e) == [kind |-> "NumError", fn |-> fn, num |-> s, detail |-> e]

\* fmt.Errorf("values of form parameter %q not a boolean", paramKey)
NotBoolError(paramKey) == [kind |-> "notBoolean", fn |-> "", num |-> << >>, detail |-> paramKey]

\* fmt.Errorf("type not supported in Slice call: %T", vs)
TypeError(t) == [kind |-> "typeNotSupported", fn |-> "", num |-> << >>, detail |-> t]

----------------------------------------------------------------------------
(* strconv *)

DigitChars == {"0", "1", "2", "3", "4", "5", "6", "7", "8", "9"}

DigitVal(c) ==
    CASE c = "0" -> 0 [] c = "1" -> 1 [] c = "2" -> 2 [] c = "3" -> 3
      [] c = "4" -> 4 [] c = "5" -> 5 [] c = "6" -> 6 [] c = "7" -> 7
      [] c = "8" -> 8 [] c = "9" -> 9

\* 1<<64 - 1 and 1<<63, as digit strings.
MaxUint64Digits == <<"1","8","4","4","6","7","4","4","0","7","3","7","0","9","5","5","1","6","1","5">>
Cutoff63Digits == <<"9","2","2","3","3","7","2","0","3","6","8","5","4","7","7","5","8","0","8">>

RECURSIVE StripZeros(_)
\* A digit string without its leading zeros (the number it denotes).
StripZeros(d) ==
    IF d = << >> THEN << >>
    ELSE IF Head(d) = "0" THEN StripZeros(Tail(d))
    ELSE d

RECURSIVE LexLess(_, _)
\* a < b for digit strings of equal length.
LexLess(a, b) ==
    IF a = << >> THEN FALSE
    ELSE IF Head(a) # Head(b) THEN DigitVal(Head(a)) < DigitVal(Head(b))
    ELSE LexLess(Tail(a), Tail(b))

\* a < b for digit strings without leading zeros.
NumLess(a, b) ==
    IF Len(a) # Len(b) THEN Len(a) < Len(b) ELSE LexLess(a, b)

RECURSIVE Horner(_, _)
\* The number a digit string denotes.
Horner(d, n) ==
    IF d = << >> THEN n ELSE Horner(Tail(d), 10 * n + DigitVal(Head(d)))

RECURSIVE UintLoop(_, _, _)
\* The digit loop of strconv.ParseUint(s, 10, 64): n is the number read so
\* far. A character that is no digit is a syntax error; a number that leaves
\* 64 bits is a range error, reported at the digit that overflows.
UintLoop(s, i, n) ==
    IF i > Len(s) THEN [ok |-> TRUE, digits |-> n, detail |-> ""]
    ELSE IF s[i] \notin DigitChars THEN [ok |-> FALSE, digits |-> << >>, detail |-> "ErrSyntax"]
    ELSE LET n1 == StripZeros(Append(n, s[i]))
         IN  IF NumLess(MaxUint64Digits, n1)
             THEN [ok |-> FALSE, digits |-> MaxUint64Digits, detail |-> "ErrRange"]
             ELSE UintLoop(s, i + 1, n1)

\* strconv.ParseUint(s, 10, 64), reporting errors under the name fn.
ParseUintAs(fn, s) ==
    IF s = << >> THEN [ok |-> FALSE, val |-> 0, err |-> NumError(fn, s, "ErrSyntax")]
    ELSE LET r == UintLoop(s, 1, << >>)
         IN  IF r.ok THEN [ok |-> TRUE, val |-> Horner(r.digits, 0), err |-> NoError]
             ELSE [ok |-> FALSE, val |-> 0, err |-> NumError(fn, s, r.detail)]

ParseUint(s) == ParseUintAs("ParseUint", s)

\* strconv.ParseInt(s, 10, 64): an optional sign, then ParseUint; the
\* magnitude must fit 63 bits (2^63 itself only when negative).
ParseInt(s) ==
    IF s = << >> THEN [ok |-> FALSE, val |-> 0, err |-> NumError("ParseInt", s, "ErrSyntax")]
    ELSE LET neg == Head(s) = "-"
             body == IF Head(s) \in {"+", "-"} THEN Tail(s) ELSE s
             r == IF body = << >> THEN [ok |-> FALSE, digits |-> << >>, detail |-> "ErrSyntax"]
                  ELSE UintLoop(body, 1, << >>)
         IN  IF ~r.ok /\ r.detail # "ErrRange"
             THEN [ok |-> FALSE, val |-> 0, err |-> NumError("ParseInt", s, "ErrSyntax")]
             ELSE IF (~neg /\ ~NumLess(r.digits, Cutoff63Digits))
                     \/ (neg /\ NumLess(Cutoff63Digits, r.digits))
             THEN [ok |-> FALSE, val |-> 0, err |-> NumError("ParseInt", s, "ErrRange")]
             ELSE LET n == Horner(r.digits, 0)
                  IN  [ok |-> TRUE, val |-> IF neg THEN 0 - n ELSE n, err |-> NoError]

RECURSIVE StripTrailingZeros(_)
StripTrailingZeros(d) ==
    IF d = << >> THEN << >>
    ELSE IF d[Len(d)] = "0" THEN StripTrailingZeros(SubSeq(d, 1, Len(d) - 1))
    ELSE d

RECURSIVE CountTrailingZeros(_)
CountTrailingZeros(d) ==
    IF d = << >> THEN 0
    ELSE IF d[Len(d)] = "0" THEN 1 + CountTrailingZeros(SubSeq(d, 1, Len(d) - 1))
    ELSE 0

\* The float64 denoted by the decimal  (-1)^neg * digits * 10^(-frac).
FloatVal(neg, digits, frac) ==
    LET d == StripZeros(digits)
        m == StripTrailingZeros(d)
    IN  IF m = << >> THEN [neg |-> neg, mant |-> << >>, exp |-> 0]
        ELSE [neg |-> neg, mant |-> m, exp |-> CountTrailingZeros(d) - frac]

RECURSIVE MantLoop(_, _, _, _, _)
\* The mantissa loop of strconv's readFloat for a decimal: digits with at
\* most one '.'; it stops at the first other character. Returns the position
\* it stopped at, the digits read and how many followed the '.'.
MantLoop(s, i, sawdot, digits, frac) ==
    IF i > Len(s) THEN [next |-> i, digits |-> digits, frac |-> frac]
    ELSE IF s[i] = "." THEN
        IF sawdot THEN [next |-> i, digits |-> digits, frac |-> frac]
        ELSE MantLoop(s, i + 1, TRUE, digits, frac)
    ELSE IF s[i] \in DigitChars THEN
        MantLoop(s, i + 1, sawdot, Append(digits, s[i]), IF sawdot THEN frac + 1 ELSE frac)
    ELSE [next |-> i, digits |-> digits, frac |-> frac]

\* strconv.ParseFloat(s, 64) on decimal spellings: an optional sign, a
\* mantissa with at least one digit, and nothing after it. (The map's values
\* in this model hold no exponent, hexadecimal, infinity or NaN spelling.)
ParseFloat(s) ==
    LET bad == [ok |-> FALSE, val |-> FloatVal(FALSE, << >>, 0),
                err |-> NumError("ParseFloat", s, "ErrSyntax")]
    IN  IF s = << >> THEN bad
        ELSE LET neg == Head(s) = "-"
                 start == IF Head(s) \in {"+", "-"} THEN 2 ELSE 1
                 m == MantLoop(s, start, FALSE, << >>, 0)
             IN  IF m.digits = << >> \/ m.next # Len(s) + 1 THEN bad
                 ELSE [ok |-> TRUE, val |-> FloatVal(neg, m.digits, m.frac), err |-> NoError]

----------------------------------------------------------------------------
(* Slices and destinations *)

\* A nil slice, and a non-nil slice holding elems.
NilSlice == [isNil |-> TRUE, elems |-> << >>]

MkSlice(elems) == [isNil |-> FALSE, elems |-> elems]

\* The dynamic types clearSlice and Slice switch on.
SupportedTypes == {"*[]string", "*[]int64", "*[]float64", "*[]uint64", "*[]bool"}

\* Destinations of other dynamic types: a pointer to a slice of another
\* element type, and a slice passed by value.
UnsupportedTypes == {"*[]int", "[]string"}

DestTypes == SupportedTypes \cup UnsupportedTypes

\* What a destination of type t may hold when it is handed to Slice.
Contents(t) ==
    {NilSlice,
     MkSlice(<< CASE t \in {"*[]string", "[]string"} -> S_maybe
                  [] t \in {"*[]int64", "*[]uint64", "*[]int"} -> 9
                  [] t = "*[]float64" -> FloatVal(FALSE, <<"2", "5">>, 1)
                  [] t = "*[]bool" -> TRUE >>)}

\* Default values handed to the scalar getters.
Int64Defaults == {0, 7}
Uint64Defaults == {0, 7}
Float64Defaults == {FloatVal(FALSE, << >>, 0), FloatVal(FALSE, <<"2", "5">>, 1)}
StringDefaults == {S_empty, S_maybe}
BoolDefaults == {TRUE, FALSE}

----------------------------------------------------------------------------
(* The getters, as functions of the Form's fields and the arguments.        *)
(* Each yields how the call ended ("returned", or "panic" when vals[0]      *)
(* indexes an empty list), the value returned and the error slot afterwards. *)

Returned(ret, e) == [outcome |-> "returned", ret |-> ret, err |-> e]

Panicked(ret, e) == [outcome |-> "panic", ret |-> ret, err |-> e]

\* Int64 as it would be if an absent key gave the zero value.
Int64Res_ZeroOnAbsent(f_values, f_err, paramKey, defaultValue) ==
    IF paramKey \notin DOMAIN f_values THEN Returned(0, f_err)
    ELSE LET vals == f_values[paramKey]
         IN  IF Len(vals) = 0 THEN Panicked(defaultValue, f_err)
             ELSE LET p == ParseInt(vals[1])
                  IN  IF ~p.ok THEN Returned(defaultValue, p.err)
                      ELSE Returned(p.val, f_err)

\* Int64 as it would be if it converted the last value of the key.
Int64Res_LastValue(f_values, f_err, paramKey, defaultValue) ==
    IF paramKey \notin DOMAIN f_values THEN Returned(defaultValue, f_err)
    ELSE LET vals == f_values[paramKey]
         IN  IF Len(vals) = 0 THEN Panicked(defaultValue, f_err)
             ELSE LET p == ParseInt(vals[Len(vals)])
                  IN  IF ~p.ok THEN Returned(defaultValue, p.err)
                      ELSE Returned(p.val, f_err)

Int64Res(f_values, f_err, paramKey, defaultValue) ==
    IF paramKey \notin DOMAIN f_values THEN Returned(defaultValue, f_err)
    ELSE LET vals == f_values[paramKey]
         IN  IF Len(vals) = 0 THEN Panicked(defaultValue, f_err)
             ELSE LET p == ParseInt(vals[1])
                  IN  IF ~p.ok THEN Returned(defaultValue, p.err)
                      ELSE Returned(p.val, f_err)

Uint64Res(f_values, f_err, paramKey, defaultValue) ==
    IF paramKey \notin DOMAIN f_values THEN Returned(defaultValue, f_err)
    ELSE LET vals == f_values[paramKey]
         IN  IF Len(vals) = 0 THEN Panicked(defaultValue, f_err)
             ELSE LET p == ParseUint(vals[1])
                  IN  IF ~p.ok THEN Returned(defaultValue, p.err)
                      ELSE Returned(p.val, f_err)

StringRes(f_values, f_err, paramKey, defaultValue) ==
    IF paramKey \notin DOMAIN f_values THEN Returned(defaultValue, f_err)
    ELSE LET vals == f_values[paramKey]
         IN  IF Len(vals) = 0 THEN Panicked(defaultValue, f_err)
             ELSE Returned(vals[1], f_err)

Float64Res(f_values, f_err, paramKey, defaultValue) ==
    IF paramKey \notin DOMAIN f_values THEN Returned(defaultValue, f_err)
    ELSE LET vals == f_values[paramKey]
         IN  IF Len(vals) = 0 THEN Panicked(defaultValue, f_err)
             ELSE LET p == ParseFloat(vals[1])
                  IN  IF ~p.ok THEN Returned(defaultValue, p.err)
                      ELSE Returned(p.val, f_err)

\* Bool as it would be with the token set of strconv.ParseBool.
BoolRes_ParseBool(f_values, f_err, paramKey, defaultValue) ==
    IF paramKey \notin DOMAIN f_values THEN Returned(defaultValue, f_err)
    ELSE LET vals == f_values[paramKey]
         IN  IF Len(vals) = 0 THEN Panicked(defaultValue, f_err)
             ELSE CASE vals[1] \in {S_true, S_1} -> Returned(TRUE, f_err)
                    [] vals[1] = S_false -> Returned(FALSE, f_err)
                    [] OTHER -> Returned(FALSE, NotBoolError(paramKey))

BoolRes(f_values, f_err, paramKey, defaultValue) ==
    IF paramKey \notin DOMAIN f_values THEN Returned(defaultValue, f_err)
    ELSE LET vals == f_values[paramKey]
         IN  IF Len(vals) = 0 THEN Panicked(defaultValue, f_err)
             ELSE CASE vals[1] = S_true -> Returned(TRUE, f_err)
                    [] vals[1] = S_false -> Returned(FALSE, f_err)
                    [] OTHER -> Returned(FALSE, NotBoolError(paramKey))

\* clearSlice as it would be if it left a supported destination as it is.
clearSlice_KeepDest(t, before) ==
    IF t \in SupportedTypes THEN [dest |-> before, err |-> NoError]
    ELSE [dest |-> before, err |-> TypeError(t)]

\* clearSlice as it would be if it cleared any destination without complaint.
clearSlice_ClearAny(t, before) == [dest |-> NilSlice, err |-> NoError]

\* clearSlice: a supported destination is set to nil; any other is left as
\* it is and reported.
clearSlice(t, before) ==
    IF t \in SupportedTypes THEN [dest |-> NilSlice, err |-> NoError]
    ELSE [dest |-> before, err |-> TypeError(t)]

\* The conversion Slice applies to one value x for a destination of type t.
ConvertElem(t, x, paramKey) ==
    CASE t = "*[]string" -> [ok |-> TRUE, val |-> x, err |-> NoError]
      [] t = "*[]int64" -> ParseInt(x)
      [] t = "*[]uint64" -> ParseUint(x)
      [] t = "*[]float64" -> ParseFloat(x)
      [] t = "*[]bool" ->
            CASE x = S_true -> [ok |-> TRUE, val |-> TRUE, err |-> NoError]
              [] x = S_false -> [ok |-> TRUE, val |-> FALSE, err |-> NoError]
              [] OTHER -> [ok |-> FALSE, val |-> FALSE, err |-> NotBoolError(paramKey)]

RECURSIVE SliceLoop_KeepPrefix(_, _, _, _, _, _)
\* The loop as it would be if a failure left the values converted so far.
SliceLoop_KeepPrefix(t, mapVals, paramKey, i, res, f_err) ==
    IF i > Len(mapVals) THEN [dest |-> MkSlice(res), err |-> f_err]
    ELSE LET c == ConvertElem(t, mapVals[i], paramKey)
         IN  IF ~c.ok THEN [dest |-> MkSlice(res), err |-> c.err]
             ELSE SliceLoop_KeepPrefix(t, mapVals, paramKey, i + 1, Append(res, c.val), f_err)

RECURSIVE SliceLoop_Prepend(_, _, _, _, _, _)
\* The loop as it would be if each converted value were put in front.
SliceLoop_Prepend(t, mapVals, paramKey, i, res, f_err) ==
    IF i > Len(mapVals) THEN [dest |-> MkSlice(res), err |-> f_err]
    ELSE LET c == ConvertElem(t, mapVals[i], paramKey)
         IN  IF ~c.ok THEN [dest |-> NilSlice, err |-> c.err]
             ELSE SliceLoop_Prepend(t, mapVals, paramKey, i + 1, <<c.val>> \o res, f_err)

RECURSIVE SliceLoop(_, _, _, _, _, _)
\* The loop of Slice over mapVals from index i on, res being what has been
\* appended so far: the first value that does not convert records its error
\* and sets the destination to nil; otherwise the destination becomes res and
\* the error slot is not written.
SliceLoop(t, mapVals, paramKey, i, res, f_err) ==
    IF i > Len(mapVals) THEN [dest |-> MkSlice(res), err |-> f_err]
    ELSE LET c == ConvertElem(t, mapVals[i], paramKey)
         IN  IF ~c.ok THEN [dest |-> NilSlice, err |-> c.err]
             ELSE SliceLoop(t, mapVals, paramKey, i + 1, Append(res, c.val), f_err)

\* Form.Slice: the destination and the error slot after the call.
SliceRes(f_values, f_err, t, before, paramKey) ==
    IF paramKey \notin DOMAIN f_values THEN clearSlice(t, before)
    ELSE IF t \in SupportedTypes
         THEN SliceLoop(t, f_values[paramKey], paramKey, 1, << >>, f_err)
         ELSE clearSlice(t, before)

----------------------------------------------------------------------------
(* State *)

\* Lists of at most n values.
Lists(n) == UNION {[1..m -> Tokens] : m \in 0..n}

\* The values maps a Form is built with: any subset of the submitted names,
\* each with a list of values (possibly empty).
ValueMaps == UNION {[D -> Lists(MaxVals)] : D \in SUBSET FormKeys}

\* A destination: its dynamic type and the slice it holds.
NoDest == [type |-> "", slice |-> NilSlice]

\* The record of the most recent call: the method, its arguments, how it
\* ended, what it returned, the error slot before it, and for Slice the
\* destination before and after it.
NoCall ==
    [op |-> "none", key |-> "", def |-> 0, outcome |-> "none", ret |-> 0,
     errBefore |-> NoError, destBefore |-> NoDest, dest |-> NoDest]

Init ==
    /\ values \in ValueMaps
    /\ err = NoError
    /\ call = NoCall

\* A panic ends the program: nothing is called after it.
Running == call.outcome # "panic"

Scalar(op, paramKey, defaultValue, r) ==
    /\ err' = r.err
    /\ call' = [op |-> op, key |-> paramKey, def |-> defaultValue,
                outcome |-> r.outcome, ret |-> r.ret,
                errBefore |-> err, destBefore |-> NoDest, dest |-> NoDest]
    /\ UNCHANGED values

Int64 ==
    /\ Running
    /\ \E paramKey \in Keys, defaultValue \in Int64Defaults :
          Scalar("Int64", paramKey, defaultValue,
                 Int64Res(values, err, paramKey, defaultValue))

Uint64 ==
    /\ Running
    /\ \E paramKey \in Keys, defaultValue \in Uint64Defaults :
          Scalar("Uint64", paramKey, defaultValue,
                 Uint64Res(values, err, paramKey, defaultValue))

String ==
    /\ Running
    /\ \E paramKey \in Keys, defaultValue \in StringDefaults :
          Scalar("String", paramKey, defaultValue,
                 StringRes(values, err, paramKey, defaultValue))

Float64 ==
    /\ Running
    /\ \E paramKey \in Keys, defaultValue \in Float64Defaults :
          Scalar("Float64", paramKey, defaultValue,
                 Float64Res(values, err, paramKey, defaultValue))

Bool ==
    /\ Running
    /\ \E paramKey \in Keys, defaultValue \in BoolDefaults :
          Scalar("Bool", paramKey, defaultValue,
                 BoolRes(values, err, paramKey, defaultValue))

Slice ==
    /\ Running
    /\ \E paramKey \in Keys, t \in DestTypes :
          \E before \in Contents(t) :
             LET r == SliceRes(values, err, t, before, paramKey)
             IN  /\ err' = r.err
                 /\ call' = [op |-> "Slice", key |-> paramKey, def |-> 0,
                             outcome |-> "returned", ret |-> 0,
                             errBefore |-> err,
                             destBefore |-> [type |-> t, slice |-> before],
                             dest |-> [type |-> t, slice |-> r.dest]]
                 /\ UNCHANGED values

Err ==
    /\ Running
    /\ call' = [op |-> "Err", key |-> "", def |-> 0,
                outcome |-> "returned", ret |-> err,
                errBefore |-> err, destBefore |-> NoDest, dest |-> NoDest]
    /\ UNCHANGED <<values, err>>

Next == Int64 \/ Uint64 \/ String \/ Float64 \/ Bool \/ Slice \/ Err

Spec == Init /\ [][Next]_vars

----------------------------------------------------------------------------
(* What the Go library yields for the strings of Tokens, written out value  *)
(* by value; the properties below are stated against these tables.          *)

IntTokens == {S_1, S_neg7}
UintTokens == {S_1}
FloatTokens == {S_1, S_neg7, S_1p5, S_2pow64}
BoolTokens == {S_true, S_false}

IntOf(s) == CASE s = S_1 -> 1 [] s = S_neg7 -> 0 - 7

UintOf(s) == CASE s = S_1 -> 1

FloatOf(s) ==
    CASE s = S_1 -> [neg |-> FALSE, mant |-> <<"1">>, exp |-> 0]
      [] s = S_neg7 -> [neg |-> TRUE, mant |-> <<"7">>, exp |-> 0]
      [] s = S_1p5 -> [neg |-> FALSE, mant |-> <<"1", "5">>, exp |-> 0 - 1]
      [] s = S_2pow64 -> [neg |-> FALSE, mant |-> S_2pow64, exp |-> 0]

ScalarOps == {"Int64", "Uint64", "Float64", "String", "Bool"}
ConvertingOps == {"Int64", "Uint64", "Float64", "Bool"}

\* The strings that parse as the target type of a scalar getter.
ParsingFor(op) ==
    CASE op = "Int64" -> IntTokens
      [] op = "Uint64" -> UintTokens
      [] op = "Float64" -> FloatTokens
      [] op = "Bool" -> BoolTokens
      [] op = "String" -> Tokens

\* The value a scalar getter's target type gives the string s.
ValueFor(op, s) ==
    CASE op = "Int64" -> IntOf(s)
      [] op = "Uint64" -> UintOf(s)
      [] op = "Float64" -> FloatOf(s)
      [] op = "Bool" -> (s = S_true)
      [] op = "String" -> s

\* The same for the element type of a supported destination.
ElemOp(t) ==
    CASE t = "*[]string" -> "String"
      [] t = "*[]int64" -> "Int64"
      [] t = "*[]uint64" -> "Uint64"
      [] t = "*[]float64" -> "Float64"
      [] t = "*[]bool" -> "Bool"

\* The most recent call was a scalar getter on a key that is present with a
\* first value.
ScalarOnPresent ==
    /\ call.op \in ScalarOps
    /\ call.key \in DOMAIN values
    /\ Len(values[call.key]) > 0

\* The most recent call was Slice with a supported destination on a present key.
SliceOnPresent ==
    /\ call.op = "Slice"
    /\ call.dest.type \in SupportedTypes
    /\ call.key \in DOMAIN values

AllConvert(t, vals) == \A i \in 1..Len(vals) : vals[i] \in ParsingFor(ElemOp(t))

\* The most recent getter call failed: a conversion failed or the
\* destination type is not supported.
CallFailed ==
    \/ /\ ScalarOnPresent
       /\ values[call.key][1] \notin ParsingFor(call.op)
    \/ /\ call.op = "Slice"
       /\ call.dest.type \in UnsupportedTypes
    \/ /\ SliceOnPresent
       /\ ~AllConvert(call.dest.type, values[call.key])

----------------------------------------------------------------------------
(* Properties *)

\* C1: a converting scalar getter (Int64, Uint64, Float64, Bool) on a present
\* key whose first value does not parse sets the error slot to a non-nil
\* error and returns exactly the supplied default.
C1_FailureReturnsDefault ==
    (/\ ScalarOnPresent
     /\ call.op \in ConvertingOps
     /\ values[call.key][1] \notin ParsingFor(call.op))
    => (/\ call.outcome = "returned"
        /\ err # NoError
        /\ call.ret = call.def)

\* C2: Err() returns the error of the most recent getter call that failed: a
\* call that fails leaves a non-nil error, a call that does not fail leaves
\* the error slot as it was, and Err returns the slot.
C2_LastFailureKept ==
    /\ (call.op = "Err" => call.ret = err)
    /\ (call.op \in ScalarOps \cup {"Slice"} /\ call.outcome = "returned")
         => IF CallFailed THEN err # NoError ELSE err = call.errBefore

\* C3: a scalar getter on an absent key returns exactly the supplied default
\* and leaves the error slot unchanged.
C3_AbsentReturnsDefault ==
    (call.op \in ScalarOps /\ call.key \notin DOMAIN values)
    => (/\ call.outcome = "returned"
        /\ call.ret = call.def
        /\ err = call.errBefore)

C3_Witness ==
    /\ call.op = "Int64"
    /\ call.key \notin DOMAIN values
    /\ call.def = 7
    /\ call.ret = 7
    /\ call.errBefore # NoError
    /\ err = call.errBefore

\* C4: a scalar getter on a present key whose first value parses returns the
\* parsed first value, whatever the default and the later values are.
C4_FirstValueReturned ==
    (ScalarOnPresent /\ values[call.key][1] \in ParsingFor(call.op))
    => (/\ call.outcome = "returned"
        /\ call.ret = ValueFor(call.op, values[call.key][1]))

C4_Witness ==
    /\ call.op = "Int64"
    /\ call.key \in DOMAIN values
    /\ values[call.key] = <<S_neg7, S_maybe>>
    /\ call.def = 7
    /\ call.ret = 0 - 7

\* C5: Slice with a supported destination on a present key with a value that
\* does not convert leaves the destination without elements and the error
\* slot non-nil.
C5_FailureClearsDest ==
    (SliceOnPresent /\ ~AllConvert(call.dest.type, values[call.key]))
    => (/\ Len(call.dest.slice.elems) = 0
        /\ err # NoError)

C5_Witness ==
    /\ SliceOnPresent
    /\ call.dest.type = "*[]int64"
    /\ values[call.key] = <<S_1, S_maybe>>
    /\ call.destBefore.slice # NilSlice
    /\ call.dest.slice = NilSlice
    /\ err # NoError

C7_AllConverted ==
    (SliceOnPresent /\ AllConvert(call.dest.type, values[call.key]))
    => (/\ ~call.dest.slice.isNil
        /\ Len(call.dest.slice.elems) = Len(values[call.key])
        /\ \A i \in 1..Len(values[call.key]) :
              call.dest.slice.elems[i]
                  = ValueFor(ElemOp(call.dest.type), values[call.key][i])
        /\ err = call.errBefore)

C7_Witness ==
    /\ SliceOnPresent
    /\ call.dest.type = "*[]float64"
    /\ values[call.key] = <<S_1p5, S_neg7>>
    /\ call.destBefore.slice # NilSlice
    /\ call.dest.slice.elems = <<FloatOf(S_1p5), FloatOf(S_neg7)>>
    /\ call.errBefore # NoError

\* C8: Slice with an unsupported destination records a non-nil type-support
\* error and does not modify the destination, key present or absent.
C8_UnsupportedType ==
    (call.op = "Slice" /\ call.dest.type \in UnsupportedTypes)
    => (/\ err = TypeError(call.dest.type)
        /\ err # NoError
        /\ call.dest = call.destBefore)

C8_Witness ==
    /\ call.op = "Slice"
    /\ call.dest.type = "*[]int"
    /\ call.key \in DOMAIN values
    /\ Len(values[call.key]) > 0
    /\ call.destBefore.slice # NilSlice
    /\ call.dest = call.destBefore
    /\ err = TypeError("*[]int")

\* C9: Bool and Slice into a bool destination use the same token rule:
\* "true" converts to true, "false" to false, and any other token is a
\* conversion failure that sets the error slot.
C9_BoolTokenRule ==
    /\ (ScalarOnPresent /\ call.op = "Bool")
         => LET v == values[call.key][1]
            IN  /\ v = S_true => (call.ret = TRUE /\ err = call.errBefore)
                /\ v = S_false => (call.ret = FALSE /\ err = call.errBefore)
                /\ v \notin {S_true, S_false} => err = NotBoolError(call.key)
    /\ (SliceOnPresent /\ call.dest.type = "*[]bool")
         => LET vals == values[call.key]
            IN  IF \A i \in 1..Len(vals) : vals[i] \in {S_true, S_false}
                THEN /\ Len(call.dest.slice.elems) = Len(vals)
                     /\ \A i \in 1..Len(vals) :
                           call.dest.slice.elems[i] = (vals[i] = S_true)
                     /\ err = call.errBefore
                ELSE err = NotBoolError(call.key)

C9_Witness ==
    /\ ScalarOnPresent
    /\ call.op = "Bool"
    /\ values[call.key][1] = S_1
    /\ call.errBefore = NoError
    /\ err = NotBoolError(call.key)

\* C10: no getter call panics, whatever the values map holds.
C10_NoPanic == call.outcome # "panic"

====
